---- MODULE Spec2Model ----
(***************************************************************************)
(* A model of parse_map_file (src/map_analyser.py, lines 53-328): the      *)
(* parser of IAR EWARM linker map reports.  Lines of the report are TLA+   *)
(* strings; the string and regular-expression operations of the code are   *)
(* operators on strings that compute what the Python operation computes.   *)
(* Indices (i, header_idx, column offsets) are 0-based as in the code; a   *)
(* missing value (Python's None) and str.find's "not found" are both -1.   *)
(***************************************************************************)
EXTENDS Integers, Sequences, FiniteSets, TLC

(***************************************************************************)
(* Python string operations.                                               *)
(***************************************************************************)

Min(a, b) == IF a < b THEN a ELSE b

Max(a, b) == IF a > b THEN a ELSE b

\* Python's s[a:b] for a >= 0, b >= 0 (both clamped to the length).
Slice(s, a, b) == SubSeq(s, a + 1, Min(b, Len(s)))

\* The character s[k] for a 0-based k, "" when k is past the end.
CharAt(s, k) == Slice(s, k, k + 1)

\* Python's s[a:].
SliceFrom(s, a) == SubSeq(s, a + 1, Len(s))

\* The characters str.strip(), str.split() and the regex class \s remove,
\* among those that occur inside a line of a report.
Whitespace == {" ", "\t"}

Digits == {"0", "1", "2", "3", "4", "5", "6", "7", "8", "9"}

HexDigits == Digits \cup {"a", "b", "c", "d", "e", "f", "A", "B", "C", "D", "E", "F"}

\* str.lstrip(chars): drop the leading characters that are in chars.
RECURSIVE LStripChars(_, _)
LStripChars(s, chars) ==
    IF s = "" THEN ""
    ELSE IF CharAt(s, 0) \in chars THEN LStripChars(SliceFrom(s, 1), chars)
    ELSE s

\* str.rstrip(chars).
RECURSIVE RStripChars(_, _)
RStripChars(s, chars) ==
    IF s = "" THEN ""
    ELSE IF CharAt(s, Len(s) - 1) \in chars THEN RStripChars(Slice(s, 0, Len(s) - 1), chars)
    ELSE s

\* str.strip().
Strip(s) == RStripChars(LStripChars(s, Whitespace), Whitespace)

\* sub in s.
Contains(s, sub) ==
    \E k \in 0..(Len(s) - Len(sub)) : Slice(s, k, k + Len(sub)) = sub

\* s.startswith(prefix).
StartsWith(s, prefix) == Len(prefix) <= Len(s) /\ Slice(s, 0, Len(prefix)) = prefix

\* s.find(sub): the lowest 0-based index of sub in s, -1 when it is absent.
Find(s, sub) ==
    IF Contains(s, sub)
    THEN CHOOSE k \in 0..(Len(s) - Len(sub)) :
            /\ Slice(s, k, k + Len(sub)) = sub
            /\ \A j \in 0..(k - 1) : Slice(s, j, j + Len(sub)) # sub
    ELSE -1

\* The length of the longest prefix of s made of characters of chars.
RECURSIVE SpanLen(_, _)
SpanLen(s, chars) ==
    IF s = "" \/ CharAt(s, 0) \notin chars THEN 0
    ELSE 1 + SpanLen(SliceFrom(s, 1), chars)

\* The length of the longest prefix of s with no character of chars.
RECURSIVE CoSpanLen(_, _)
CoSpanLen(s, chars) ==
    IF s = "" \/ CharAt(s, 0) \in chars THEN 0
    ELSE 1 + CoSpanLen(SliceFrom(s, 1), chars)

\* str.split(): the whitespace-delimited tokens of s, in order.
RECURSIVE Split(_)
Split(s) ==
    LET t == LStripChars(s, Whitespace)
        n == CoSpanLen(t, Whitespace)
    IN  IF t = "" THEN << >>
        ELSE << Slice(t, 0, n) >> \o Split(SliceFrom(t, n))

\* re.findall(r"[<chars>]+", s): the maximal runs of characters of chars.
RECURSIVE FindAllRuns(_, _)
FindAllRuns(s, chars) ==
    LET skip == CoSpanLen(s, chars)
        t    == SliceFrom(s, skip)
        n    == SpanLen(t, chars)
    IN  IF t = "" THEN << >>
        ELSE << Slice(t, 0, n) >> \o FindAllRuns(SliceFrom(t, n), chars)

\* str.replace(old, ""): every occurrence of old removed, left to right.
RECURSIVE Remove(_, _)
Remove(s, old) ==
    IF s = "" THEN ""
    ELSE IF StartsWith(s, old) THEN Remove(SliceFrom(s, Len(old)), old)
    ELSE CharAt(s, 0) \o Remove(SliceFrom(s, 1), old)

\* str.replace(old, new) for a one-character old.
RECURSIVE ReplaceChar(_, _, _)
ReplaceChar(s, old, new) ==
    IF s = "" THEN ""
    ELSE (IF CharAt(s, 0) = old THEN new ELSE CharAt(s, 0))
         \o ReplaceChar(SliceFrom(s, 1), old, new)

\* str.ljust(width): right-padded with spaces to at least width characters.
RECURSIVE LJust(_, _)
LJust(s, width) == IF Len(s) >= width THEN s ELSE LJust(s \o " ", width)

\* Whether every character of s is in chars and s is not empty.
AllIn(s, chars) == s # "" /\ SpanLen(s, chars) = Len(s)

(***************************************************************************)
(* Numbers.                                                                *)
(***************************************************************************)

DigitVal ==
    [c \in HexDigits |->
        CASE c = "0" -> 0 [] c = "1" -> 1 [] c = "2" -> 2 [] c = "3" -> 3
          [] c = "4" -> 4 [] c = "5" -> 5 [] c = "6" -> 6 [] c = "7" -> 7
          [] c = "8" -> 8 [] c = "9" -> 9
          [] c \in {"a", "A"} -> 10 [] c \in {"b", "B"} -> 11
          [] c \in {"c", "C"} -> 12 [] c \in {"d", "D"} -> 13
          [] c \in {"e", "E"} -> 14 [] c \in {"f", "F"} -> 15]

\* The value of a string of digits of the given base ("" is 0).
RECURSIVE DigitsValue(_, _)
DigitsValue(s, base) ==
    IF s = "" THEN 0
    ELSE DigitsValue(Slice(s, 0, Len(s) - 1), base) * base + DigitVal[CharAt(s, Len(s) - 1)]

\* The text int() reads after the sign: digits, with single underscores allowed
\* between two digits.
IntLiteral(b) ==
    /\ b # ""
    /\ SpanLen(b, Digits \cup {"_"}) = Len(b)
    /\ CharAt(b, 0) \in Digits
    /\ CharAt(b, Len(b) - 1) \in Digits
    /\ ~Contains(b, "__")

\* Python's int(t) in base 10: surrounding whitespace and one sign are accepted;
\* any other text raises ValueError.  The result is [raised, value].
PyInt(t) ==
    LET u    == Strip(t)
        sign == IF u # "" /\ CharAt(u, 0) \in {"+", "-"} THEN CharAt(u, 0) ELSE ""
        b    == SliceFrom(u, Len(sign))
    IN  IF IntLiteral(b)
        THEN [raised |-> FALSE,
              value  |-> IF sign = "-" THEN 0 - DigitsValue(Remove(b, "_"), 10)
                         ELSE DigitsValue(Remove(b, "_"), 10)]
        ELSE [raised |-> TRUE, value |-> 0]

\* int(size_hex, 16) for a size_hex the entry patterns matched: "0x" and hex digits.
HexInt(size_hex) == DigitsValue(SliceFrom(size_hex, 2), 16)

\* A variant of parse_iar_number that removes the apostrophes only.
ParseApostrophesOnly(s) ==
    IF s = "" \/ Strip(s) = ""
    THEN [raised |-> FALSE, value |-> 0]
    ELSE PyInt(Remove(Strip(s), "'"))

\* parse_iar_number: 0 for an empty or blank text, else int() of the text with
\* the apostrophes and commas removed.
parse_iar_number(s) ==
    IF s = "" \/ Strip(s) = ""
    THEN [raised |-> FALSE, value |-> 0]
    ELSE PyInt(Remove(Remove(Strip(s), "'"), ","))

\* [parse_iar_number(p) for p in parts]: whether some element raises, and the values.
AnyRaises(parts) == \E k \in 1..Len(parts) : parse_iar_number(parts[k]).raised

DecodeAll(parts) == [k \in 1..Len(parts) |-> parse_iar_number(parts[k]).value]

(***************************************************************************)
(* The regular expressions of the parser.                                  *)
(***************************************************************************)

\* The text left after the first n whitespace-delimited tokens of s and the
\* whitespace that follows them.
RECURSIVE DropTokens(_, _)
DropTokens(s, n) ==
    LET t == LStripChars(s, Whitespace)
    IN  IF n = 0 THEN t
        ELSE DropTokens(SliceFrom(t, CoSpanLen(t, Whitespace)), n - 1)

\* 0x[\da-fA-F']+ as a whole token.
IsAddressToken(t) == StartsWith(t, "0x") /\ AllIn(SliceFrom(t, 2), HexDigits \cup {"'"})

\* 0x[\da-fA-F]+ as a whole token.
IsSizeToken(t) == StartsWith(t, "0x") /\ AllIn(SliceFrom(t, 2), HexDigits)

\* (0x[\da-fA-F']+)\s+(0x[\da-fA-F]+)\s+(Code|Data)\s+(Gb|Lc|Wk)\s+(.*) found in
\* the tokens of s from token number first on (re.match on a stripped line:
\* the \s+ after the scope needs a further token).
FieldsMatch(s, first) ==
    LET toks == Split(s)
    IN  /\ Len(toks) >= first + 4
        /\ IsAddressToken(toks[first])
        /\ IsSizeToken(toks[first + 1])
        /\ toks[first + 2] \in {"Code", "Data"}
        /\ toks[first + 3] \in {"Gb", "Lc", "Wk"}

\* The entry record built from the fields from token number first on.
EntryOf(name, s, first) ==
    LET toks == Split(s)
    IN  [name    |-> name,
         address |-> Remove(toks[first], "'"),
         size    |-> HexInt(toks[first + 1]),
         type    |-> toks[first + 2],
         scope   |-> toks[first + 3],
         object  |-> Strip(DropTokens(s, first + 3))]

\* entry_match: (\S+)\s+ and the fields.
EntryMatch(stripped) == FieldsMatch(stripped, 2)

\* cont_match: the fields with no leading name.
ContMatch(next_line) == FieldsMatch(next_line, 1)

\* ^\[\d+\]\s*= matched at the start of a stripped line.
FootnoteMatch(stripped) ==
    LET n == SpanLen(SliceFrom(stripped, 1), Digits)
    IN  /\ StartsWith(stripped, "[")
        /\ n >= 1
        /\ CharAt(stripped, 1 + n) = "]"
        /\ StartsWith(LStripChars(SliceFrom(stripped, 2 + n), Whitespace), "=")

\* \s*(\[\d+\])?\s*$ : what may follow the colon of a group header.
GroupTail(t) ==
    LET u == Strip(t)
    IN  \/ u = ""
        \/ /\ StartsWith(u, "[")
           /\ CharAt(u, Len(u) - 1) = "]"
           /\ AllIn(Slice(u, 1, Len(u) - 1), Digits)

\* The 0-based positions of a colon that can end group 1 of ^(\S.*?):\s*(\[\d+\])?\s*$
GroupColons(line) ==
    {p \in 1..(Len(line) - 1) : CharAt(line, p) = ":" /\ GroupTail(SliceFrom(line, p + 1))}

\* group_match: the line starts with a non-blank character and has such a colon.
GroupMatch(line) ==
    line # "" /\ CharAt(line, 0) \notin Whitespace /\ GroupColons(line) # {}

\* group_match.group(1): the lazy .*? stops at the first such colon.
GroupLabel(line) ==
    Slice(line, 0, CHOOSE p \in GroupColons(line) : \A q \in GroupColons(line) : p <= q)

\* mod_match, \s+(\S+\.o)\s+(.*) : leading whitespace, a token ending in ".o"
\* and whitespace after it.
ModMatch(line) ==
    LET t == LStripChars(line, Whitespace)
        n == CoSpanLen(t, Whitespace)
    IN  /\ line # "" /\ CharAt(line, 0) \in Whitespace
        /\ n >= 3
        /\ Slice(t, n - 2, n) = ".o"
        /\ Len(t) > n

\* mod_match.group(1).
ModToken(line) ==
    LET t == LStripChars(line, Whitespace)
    IN  Slice(t, 0, CoSpanLen(t, Whitespace))

\* mod_match.group(2).strip().
ModRest(line) == Strip(DropTokens(line, 1))

\* \s*([\d',]+)\s+<first>\s+<second> or, with wide = FALSE, one literal space
\* between the two word groups; re.match, so the line may go on after it.
SentenceMatch(line, first, second, wide) ==
    LET t  == LStripChars(line, Whitespace)
        n  == SpanLen(t, Digits \cup {"'", ","})
        r1 == SliceFrom(t, n)
        r2 == LStripChars(r1, Whitespace)
        r3 == SliceFrom(r2, Len(first))
    IN  /\ n >= 1
        /\ r1 # "" /\ CharAt(r1, 0) \in Whitespace
        /\ StartsWith(r2, first)
        /\ IF wide
           THEN /\ r3 # "" /\ CharAt(r3, 0) \in Whitespace
                /\ StartsWith(LStripChars(r3, Whitespace), second)
           ELSE StartsWith(r3, " " \o second)

\* m.group(1) of a sentence match.
SentenceNumber(line) ==
    LET t == LStripChars(line, Whitespace)
    IN  Slice(t, 0, SpanLen(t, Digits \cup {"'", ","}))

(***************************************************************************)
(* The state of one call of parse_map_file.                                *)
(***************************************************************************)
VARIABLES
    lines,                  \* content.splitlines()
    pc,                     \* the part of parse_map_file that runs next
    toolchain_info,         \* result["toolchain_info"]
    modules,                \* result["modules"]
    entries,                \* result["entries"]
    grand_total,            \* result["grand_total"]
    summary,                \* result["summary"]
    module_summary_start,
    entry_list_start,
    header_idx,
    ro_code_col,
    ro_data_col,
    rw_data_col,
    current_module_group,
    i,                      \* the index of the two while loops
    number_text,            \* the argument s of a call of parse_iar_number
    number_value            \* the value the call returned

vars == << lines, pc, toolchain_info, modules, entries, grand_total, summary,
           module_summary_start, entry_list_start, header_idx,
           ro_code_col, ro_data_col, rw_data_col, current_module_group, i,
           number_text, number_value >>

\* Python's None, for the three optional indices.
None == -1

\* lines[k] for a 0-based k.
Line(k) == lines[k + 1]

\* The characters line.rstrip("\r\n") removes.
LineEnds == {"\r", "\n"}

\* The number of leading lines searched for the toolchain banner.
ToolchainWindow == 10

\* The number of lines, from the section banner on, searched for the header.
HeaderWindow == 10

\* The number of trailing lines scanned for the summary sentences.
SummaryWindow == 20

(***************************************************************************)
(* Toolchain banner and section banners.                                   *)
(***************************************************************************)

\* for line in lines[:10]: the first line with "IAR ELF Linker", trimmed.
RECURSIVE ToolchainScan(_)
ToolchainScan(k) ==
    IF k >= Min(ToolchainWindow, Len(lines)) THEN ""
    ELSE IF Contains(Line(k), "IAR ELF Linker")
         THEN Strip(LStripChars(Strip(Line(k)), {"#"}))
         ELSE ToolchainScan(k + 1)

ExtractToolchainInfo ==
    /\ pc = "toolchain"
    /\ toolchain_info' = ToolchainScan(0)
    /\ pc' = "locate"
    /\ UNCHANGED << number_text, number_value, lines, modules, entries, grand_total, summary,
                    module_summary_start, entry_list_start, header_idx,
                    ro_code_col, ro_data_col, rw_data_col, current_module_group, i >>

IsModuleBanner(line) == Contains(line, "MODULE SUMMARY") /\ Contains(line, "***")

IsEntryBanner(line) == Contains(line, "ENTRY LIST") /\ Contains(line, "***")

\* for i, line in enumerate(lines): every banner line assigns its index; the
\* value is << module_summary_start, entry_list_start >> after the loop.
RECURSIVE LocateScan(_, _, _)
LocateScan(k, ms, es) ==
    IF k >= Len(lines) THEN << ms, es >>
    ELSE IF IsModuleBanner(Line(k)) THEN LocateScan(k + 1, k, es)
    ELSE IF IsEntryBanner(Line(k)) THEN LocateScan(k + 1, ms, k)
    ELSE LocateScan(k + 1, ms, es)

LocateSections ==
    /\ pc = "locate"
    /\ module_summary_start' = LocateScan(0, None, None)[1]
    /\ entry_list_start' = LocateScan(0, None, None)[2]
    /\ pc' = "module_header"
    /\ UNCHANGED << number_text, number_value, lines, toolchain_info, modules, entries, grand_total, summary,
                    header_idx, ro_code_col, ro_data_col, rw_data_col,
                    current_module_group, i >>

IsModuleHeader(line) == Contains(line, "Module") /\ Contains(line, "ro code")

IsEntryHeader(line) ==
    Contains(line, "Entry") /\ Contains(line, "Address") /\ Contains(line, "Size")

\* for i in range(start, min(start + 10, len(lines))): the first header line
\* of the module summary (entry_section = FALSE) or of the entry list, None
\* when the window holds none.
\* A body pass that starts at the line right after the header.
BodyStartNextLine(h) == h + 1

\* i = header_idx + 2: the first line of a body pass, past the header and the
\* line after it.
BodyStart(h) == h + 2

RECURSIVE HeaderScan(_, _, _)
HeaderScan(k, stop, entry_section) ==
    IF k >= stop THEN None
    ELSE IF (IF entry_section THEN IsEntryHeader(Line(k)) ELSE IsModuleHeader(Line(k))) THEN k
    ELSE HeaderScan(k + 1, stop, entry_section)

(***************************************************************************)
(* MODULE SUMMARY.                                                         *)
(***************************************************************************)

FindModuleHeader ==
    LET h == IF module_summary_start = None THEN None
             ELSE HeaderScan(module_summary_start,
                             Min(module_summary_start + HeaderWindow, Len(lines)), FALSE)
    IN  /\ pc = "module_header"
        /\ IF h = None
           THEN /\ pc' = "entry_header"
                /\ UNCHANGED << header_idx, ro_code_col, ro_data_col, rw_data_col,
                                current_module_group, i >>
           ELSE /\ header_idx' = h
                /\ ro_code_col' = Find(Line(h), "ro code")
                /\ ro_data_col' = Find(Line(h), "ro data")
                /\ rw_data_col' = Find(Line(h), "rw data")
                /\ current_module_group' = ""
                /\ i' = BodyStart(h)
                /\ pc' = "module_loop"
        /\ UNCHANGED << number_text, number_value, lines, toolchain_info, modules, entries, grand_total, summary,
                        module_summary_start, entry_list_start >>

\* The end of the section: "***" in line and line.strip().startswith("***").
IsSectionEnd(line) == Contains(line, "***") /\ StartsWith(Strip(line), "***")

\* Empty lines and separator lines.
IsBlankOrSeparator(line) == Strip(line) = "" \/ StartsWith(Strip(line), "---")

IsGrandTotal(line) == Contains(line, "Grand Total:")

\* "Total:" of a group, "Gaps" and "Linker created" lines.
IsSkippedTotal(line) ==
    \/ StartsWith(Strip(line), "Total:")
    \/ StartsWith(Strip(line), "Gaps")
    \/ StartsWith(Strip(line), "Linker created")

\* group_match and ".o" not in stripped.split()[0]
IsGroupHeader(line) == GroupMatch(line) /\ ~Contains(Split(Strip(line))[1], ".o")

\* The rule that handles a line of the module-summary body: the first test of
\* the loop body that the line passes.
ModuleLineKind(line) ==
    IF IsSectionEnd(line) THEN "end"
    ELSE IF IsBlankOrSeparator(line) THEN "skip"
    ELSE IF IsGrandTotal(line) THEN "grand_total"
    ELSE IF IsSkippedTotal(line) THEN "total"
    ELSE IF IsGroupHeader(line) THEN "group"
    ELSE IF ModMatch(line) THEN "module"
    ELSE "other"

\* The numeric tokens of a text: re.findall(r"[\d']+", text).
NumberTokens(text) == FindAllRuns(text, Digits \cup {"'"})

\* grand_total after a "Grand Total:" line whose decoded numbers are nums.
GrandTotalAfter(gt, nums) ==
    IF Len(nums) >= 3 THEN [ro_code |-> nums[1], ro_data |-> nums[2], rw_data |-> nums[3]]
    ELSE IF Len(nums) = 2 THEN [gt EXCEPT !.ro_code = nums[1], !.ro_data = nums[2]]
    ELSE IF Len(nums) = 1 THEN [gt EXCEPT !.ro_code = nums[1]]
    ELSE gt

\* re.sub(r"_\d{10,}\.dir", "", s): every "_", ten or more digits, ".dir" removed.
RECURSIVE RemoveHashSuffix(_)
RemoveHashSuffix(s) ==
    LET n == SpanLen(SliceFrom(s, 1), Digits)
    IN  IF s = "" THEN ""
        ELSE IF CharAt(s, 0) = "_" /\ n >= 10 /\ StartsWith(SliceFrom(s, 1 + n), ".dir")
             THEN RemoveHashSuffix(SliceFrom(s, 1 + n + 4))
             ELSE CharAt(s, 0) \o RemoveHashSuffix(SliceFrom(s, 1))

\* label.replace("\\", "/").split("/")[-1]: the text after the last separator.
RECURSIVE LastSegment(_)
LastSegment(s) ==
    IF Contains(s, "/") THEN LastSegment(SliceFrom(s, Find(s, "/") + 1)) ELSE s

\* current_module_group after a group header line.
GroupOf(line) ==
    LET label == Strip(GroupLabel(line))
        last  == LastSegment(ReplaceChar(label, "\\", "/"))
        short == IF Contains(label, "\\") \/ Contains(label, "/")
                 THEN (IF last # "" THEN last ELSE label)
                 ELSE label
    IN  RemoveHashSuffix(short)

\* Whether all three column offsets were found in the header line.
ColumnsKnown == ro_code_col >= 0 /\ ro_data_col >= 0 /\ rw_data_col >= 0

\* The three column texts of a module row: padded[a:b].strip().
ColumnTexts(line) ==
    LET padded == LJust(line, rw_data_col + 10)
    IN  << Strip(Slice(padded, ro_code_col, ro_data_col)),
           Strip(Slice(padded, ro_data_col, rw_data_col)),
           Strip(SliceFrom(padded, rw_data_col)) >>

\* Whether decoding a module row raises: in the list of the numbers of the
\* rest of the line, or in a column text.
ModuleRowRaises(line) ==
    \/ AnyRaises(NumberTokens(ModRest(line)))
    \/ (ColumnsKnown /\ AnyRaises(ColumnTexts(line)))

\* A variant of ModuleRowCounts that always takes the numbers in order.
ModuleRowCountsByPosition(line) ==
    LET nums == DecodeAll(NumberTokens(ModRest(line)))
    IN  << IF Len(nums) > 0 THEN nums[1] ELSE 0,
           IF Len(nums) > 1 THEN nums[2] ELSE 0,
           IF Len(nums) > 2 THEN nums[3] ELSE 0 >>

\* << ro_code, ro_data, rw_data >> of a module row that decodes.
ModuleRowCounts(line) ==
    LET nums == DecodeAll(NumberTokens(ModRest(line)))
    IN  IF ColumnsKnown THEN DecodeAll(ColumnTexts(line))
        ELSE << IF Len(nums) > 0 THEN nums[1] ELSE 0,
                IF Len(nums) > 1 THEN nums[2] ELSE 0,
                IF Len(nums) > 2 THEN nums[3] ELSE 0 >>

\* The name of a module: the object-file token with ".o" replaced by "".
ModuleName(token) == Remove(token, ".o")

\* A variant of ModuleTotal that leaves the read-write data out.
ModuleTotalReadOnly(ro_code, ro_data, rw_data) == ro_code + ro_data

\* "total": ro_code + ro_data + rw_data, computed when the dict is built.
ModuleTotal(ro_code, ro_data, rw_data) == ro_code + ro_data + rw_data

\* The dict appended for a module row.
ModuleOf(line, group) ==
    LET c == ModuleRowCounts(line)
    IN  [name    |-> ModuleName(ModToken(line)),
         group   |-> group,
         ro_code |-> c[1],
         ro_data |-> c[2],
         rw_data |-> c[3],
         total   |-> ModuleTotal(c[1], c[2], c[3])]

\* One test of the while condition and, when it holds, one pass of the loop body.
ModuleLine ==
    LET line == RStripChars(Line(i), LineEnds)
        kind == ModuleLineKind(line)
        nums == NumberTokens(line)
    IN  /\ pc = "module_loop"
        /\ IF i >= Len(lines) \/ kind = "end"
           THEN /\ pc' = "entry_header"
                /\ UNCHANGED << i, grand_total, current_module_group, modules >>
           ELSE IF (kind = "grand_total" /\ AnyRaises(nums))
                   \/ (kind = "module" /\ ModuleRowRaises(line))
           THEN /\ pc' = "raised"
                /\ UNCHANGED << i, grand_total, current_module_group, modules >>
           ELSE /\ pc' = pc
                /\ i' = i + 1
                /\ grand_total' = IF kind = "grand_total"
                                  THEN GrandTotalAfter(grand_total, DecodeAll(nums))
                                  ELSE grand_total
                /\ current_module_group' = IF kind = "group" THEN GroupOf(line)
                                           ELSE current_module_group
                /\ modules' = IF kind = "module"
                              THEN Append(modules, ModuleOf(line, current_module_group))
                              ELSE modules
        /\ UNCHANGED << number_text, number_value, lines, toolchain_info, entries, summary, module_summary_start,
                        entry_list_start, header_idx, ro_code_col, ro_data_col, rw_data_col >>

(***************************************************************************)
(* ENTRY LIST.                                                             *)
(***************************************************************************)

FindEntryHeader ==
    LET h == IF entry_list_start = None THEN None
             ELSE HeaderScan(entry_list_start,
                             Min(entry_list_start + HeaderWindow, Len(lines)), TRUE)
    IN  /\ pc = "entry_header"
        /\ IF h = None
           THEN /\ pc' = "summary"
                /\ UNCHANGED << header_idx, i >>
           ELSE /\ header_idx' = h
                /\ i' = BodyStart(h)
                /\ pc' = "entry_loop"
        /\ UNCHANGED << number_text, number_value, lines, toolchain_info, modules, entries, grand_total, summary,
                        module_summary_start, entry_list_start,
                        ro_code_col, ro_data_col, rw_data_col, current_module_group >>

\* A line that can hold the name of a wrapped entry: not empty and starting
\* neither with "0x" nor with "-".
IsNameLine(stripped) ==
    stripped # "" /\ ~StartsWith(stripped, "0x") /\ ~StartsWith(stripped, "-")

\* A variant of EntryLineKind that takes a footnote line for any other line.
EntryLineKindPastFootnotes(k) ==
    LET stripped == Strip(RStripChars(Line(k), LineEnds))
    IN  IF stripped = "" THEN "skip"
        ELSE IF EntryMatch(stripped) THEN "single"
        ELSE IF /\ IsNameLine(stripped)
                /\ k + 1 < Len(lines)
                /\ ContMatch(Strip(Line(k + 1))) THEN "wrapped"
        ELSE "other"

\* The branch of the loop body that handles line k of the entry list.
EntryLineKind(k) ==
    LET stripped == Strip(RStripChars(Line(k), LineEnds))
    IN  IF FootnoteMatch(stripped) THEN "end"
        ELSE IF stripped = "" THEN "skip"
        ELSE IF EntryMatch(stripped) THEN "single"
        ELSE IF /\ IsNameLine(stripped)
                /\ k + 1 < Len(lines)
                /\ ContMatch(Strip(Line(k + 1))) THEN "wrapped"
        ELSE "other"

\* A variant of KeepEntry that lets an entry of size 0 through.
KeepEntryNonNegative(size_bytes) == size_bytes >= 0

\* if size_bytes > 0: only then is the entry appended.
KeepEntry(size_bytes) == size_bytes > 0

\* The entry that line k (and, for a wrapped entry, line k + 1) describes.
EntryAt(k) ==
    LET stripped == Strip(RStripChars(Line(k), LineEnds))
    IN  IF EntryLineKind(k) = "single"
        THEN EntryOf(Split(stripped)[1], stripped, 2)
        ELSE EntryOf(stripped, Strip(Line(k + 1)), 1)

\* A variant of EntryAdvance that stays on a line that is no entry.
EntryAdvanceStalls(kind) == IF kind = "wrapped" THEN 2 ELSE IF kind = "other" THEN 0 ELSE 1

\* A variant of EntryAdvance that steps one line after a wrapped entry too.
EntryAdvanceOne(kind) == 1

\* The number of lines one pass of the loop body consumes.
EntryAdvance(kind) == IF kind = "wrapped" THEN 2 ELSE 1

\* One test of the while condition and, when it holds, one pass of the loop body.
EntryLine ==
    LET kind == EntryLineKind(i)
    IN  /\ pc = "entry_loop"
        /\ IF i >= Len(lines) \/ kind = "end"
           THEN /\ pc' = "summary"
                /\ UNCHANGED << i, entries >>
           ELSE /\ pc' = pc
                /\ i' = i + EntryAdvance(kind)
                /\ entries' = IF kind \in {"single", "wrapped"} /\ KeepEntry(EntryAt(i).size)
                              THEN Append(entries, EntryAt(i))
                              ELSE entries
        /\ UNCHANGED << number_text, number_value, lines, toolchain_info, modules, grand_total, summary,
                        module_summary_start, entry_list_start, header_idx,
                        ro_code_col, ro_data_col, rw_data_col, current_module_group >>

(***************************************************************************)
(* The final summary and the sort.                                         *)
(***************************************************************************)

IsCodeSentence(line) == SentenceMatch(line, "bytes of readonly", "code memory", TRUE)

IsDataSentence(line) == SentenceMatch(line, "bytes of readonly", "data memory", TRUE)

IsReadWriteSentence(line) == SentenceMatch(line, "bytes of readwrite", "data memory", FALSE)

IsSentence(line) == IsCodeSentence(line) \/ IsDataSentence(line) \/ IsReadWriteSentence(line)

\* A variant of SummaryStart for a window one line short.
SummaryStartShort == Max(0, Len(lines) - SummaryWindow + 1)

\* The 0-based index of the first line of lines[-20:].
SummaryStart == Max(0, Len(lines) - SummaryWindow)

\* The summary after the three matches of the loop body on one line.
SummaryAfterLine(sm, line) ==
    LET n == parse_iar_number(SentenceNumber(line)).value
    IN  [readonly_code  |-> IF IsCodeSentence(line) THEN n ELSE sm.readonly_code,
         readonly_data  |-> IF IsDataSentence(line) THEN n ELSE sm.readonly_data,
         readwrite_data |-> IF IsReadWriteSentence(line) THEN n ELSE sm.readwrite_data]

\* for line in lines[-20:], from line k on.
RECURSIVE SummaryScan(_, _)
SummaryScan(k, sm) ==
    IF k >= Len(lines) THEN sm
    ELSE SummaryScan(k + 1, SummaryAfterLine(sm, Line(k)))

\* Whether some scanned line matches a sentence whose number does not decode.
SummaryRaises ==
    \E k \in SummaryStart..(Len(lines) - 1) :
        IsSentence(Line(k)) /\ parse_iar_number(SentenceNumber(Line(k))).raised

ParseSummary ==
    /\ pc = "summary"
    /\ IF SummaryRaises
       THEN pc' = "raised" /\ summary' = summary
       ELSE pc' = "sort" /\ summary' = SummaryScan(SummaryStart, summary)
    /\ UNCHANGED << number_text, number_value, lines, toolchain_info, modules, entries, grand_total,
                    module_summary_start, entry_list_start, header_idx,
                    ro_code_col, ro_data_col, rw_data_col, current_module_group, i >>

\* A variant of InsertBySize that places e before the elements of its own size,
\* as a sort that is not stable may.
InsertBeforeEqual(sorted, e) ==
    LET k == Cardinality({j \in 1..Len(sorted) : sorted[j].size > e.size})
    IN  SubSeq(sorted, 1, k) \o << e >> \o SubSeq(sorted, k + 1, Len(sorted))

\* e placed in a list sorted by size descending, after the elements that are
\* at least as large.
InsertBySize(sorted, e) ==
    LET k == Cardinality({j \in 1..Len(sorted) : sorted[j].size >= e.size})
    IN  SubSeq(sorted, 1, k) \o << e >> \o SubSeq(sorted, k + 1, Len(sorted))

\* list.sort(key=size, reverse=True): by size descending, equal sizes in their
\* original order.
RECURSIVE SortBySizeDesc(_)
SortBySizeDesc(es) ==
    IF es = << >> THEN << >>
    ELSE InsertBySize(SortBySizeDesc(SubSeq(es, 1, Len(es) - 1)), es[Len(es)])

\* The sort, and the return of the result.
SortEntries ==
    /\ pc = "sort"
    /\ entries' = SortBySizeDesc(entries)
    /\ pc' = "done"
    /\ UNCHANGED << number_text, number_value, lines, toolchain_info, modules, grand_total, summary,
                    module_summary_start, entry_list_start, header_idx,
                    ro_code_col, ro_data_col, rw_data_col, current_module_group, i >>

(***************************************************************************)
(* The reports the parser is run on.  A report is a toolchain banner, a    *)
(* module summary (banner, header, separator, body), an entry list         *)
(* (banner, header, separator, body, footnote) and the closing lines.      *)
(***************************************************************************)

\* The largest number of freely chosen lines in the varied part of a report.
MaxBody == 3

\* The sequences of at most MaxBody lines of pool.
Bodies(pool) == UNION {[1..n -> pool] : n \in 0..MaxBody}

ToolchainLine == "# IAR ELF Linker V9.10"

ModuleBanner == "*** MODULE SUMMARY"

\* "ro code" at offset 11, "ro data" at 20, "rw data" at 29.
ModuleHeader == "  Module   ro code  ro data  rw data"

\* A header without the "rw data" label: its offset is unknown.
ModuleHeaderNoRw == "  Module   ro code  ro data"

ModuleSeparator == "  ------   -------  -------  -------"

EntryBanner == "*** ENTRY LIST"

EntryHeader == "Entry  Address  Size  Type  Object"

EntrySeparator == "-----  -------  ----  ----  ------"

FootnoteLine == "[1] = C:\\proj\\Obj"

\* A report with the given module header, module-summary body, entry-list
\* body and closing lines.
Report(header, mbody, ebody, tail) ==
    << ToolchainLine, ModuleBanner, header, ModuleSeparator >> \o mbody
    \o << EntryBanner, EntryHeader, EntrySeparator >> \o ebody
    \o << FootnoteLine >> \o tail

PlainModules == << "  main.o         380        8       12" >>

PlainEntries == << "main  0x08000100  0x10  Code  Gb  main.o" >>

PlainTail == << "  1'234 bytes of readonly  code memory" >>

\* The values of the variables when parse_map_file starts on the lines of a
\* report of reports.
InitOn(reports) ==
    /\ lines \in reports
    /\ pc = "toolchain"
    /\ toolchain_info = ""
    /\ modules = << >>
    /\ entries = << >>
    /\ grand_total = [ro_code |-> 0, ro_data |-> 0, rw_data |-> 0]
    /\ summary = [readonly_code |-> 0, readonly_data |-> 0, readwrite_data |-> 0]
    /\ module_summary_start = None
    /\ entry_list_start = None
    /\ header_idx = None
    /\ ro_code_col = -1
    /\ ro_data_col = -1
    /\ rw_data_col = -1
    /\ current_module_group = ""
    /\ i = 0
    /\ number_text = ""
    /\ number_value = 0

\* Module-summary bodies of group headers, subtotals and rows.
GroupPool ==
    { "dl7M_tlf.a: [5]",
      "C:\\proj\\Drivers_6603591812247902717.dir: [1]",
      "command line/config:",
      "C:\\proj.old\\Obj: [2]",
      "C:\\proj\\Obj\\: [3]",
      "Total:",
      "    Gaps              2",
      "  main.o         380        8       12",
      "some other text" }

GroupReports == {Report(ModuleHeader, b, PlainEntries, PlainTail) : b \in Bodies(GroupPool)}

\* Module-summary bodies of "Grand Total:" lines with 0 to 4 numbers.
TotalsPool ==
    { "Grand Total:   1'234       56      789",
      "Grand Total:      10       20",
      "Grand Total:       7",
      "Grand Total:",
      "Grand Total:       1        2        3        4",
      "Grand Total:   1,234       56",
      "Grand Total: it's",
      "  main.o         380        8       12" }

TotalsReports == {Report(ModuleHeader, b, PlainEntries, PlainTail) : b \in Bodies(TotalsPool)}

\* Module rows, under a header with all three labels and under one without
\* "rw data".
RowPool ==
    { "  main.o         380        8       12",
      "  startup.o                         4",
      "  hal.o        1'168       20",
      "  diff.o          -5",
      "  crt.out.o       12",
      "  big.o           96 1'234'567        8",
      "  wide.o          1'234'567",
      "  note.o         n/a" }

\* A header for longer module names: "ro code" at offset 22, "ro data" at 31,
\* "rw data" at 40.
ModuleHeaderWide == "  Module              ro code  ro data  rw data"

\* The row of scenario A with its numbers right-aligned under the labels of
\* ModuleHeaderWide.
ScenarioARow == "  stm32f4xx_hal.o         144        8       12"

\* That row, the same words three blanks apart with and without indentation,
\* and a row with one number under "rw data".
ScenarioPool ==
    { ScenarioARow,
      "  stm32f4xx_hal.o   144   8   12",
      "stm32f4xx_hal.o   144   8   12",
      "  startup.o                                   4" }

RowReports ==
    {Report(h, b, PlainEntries, PlainTail) :
        h \in {ModuleHeader, ModuleHeaderNoRw}, b \in Bodies(RowPool)}
    \cup {Report(h, b, PlainEntries, PlainTail) :
            h \in {ModuleHeaderWide, ModuleHeaderNoRw}, b \in Bodies(ScenarioPool)}

\* Entry-list bodies: single-line entries, a wrapped entry, entries of size 0,
\* a footnote and lines that are no entry.
EntryPool ==
    { "main  0x08000100  0x10  Code  Gb  main.o",
      "init  0x08000110  0x10  Code  Lc  startup.o",
      "buf  0x2000'0000  0x400  Data  Gb  main.o",
      "alias  0x08000100  0x0  Code  Wk  main.o",
      "a_very_long_symbol_name",
      "    0x08001234   0x000000c8   Code   Gb   main.o",
      "    0x08001300   0x0   Data   Lc   main.o",
      "region of vectors",
      "[2] = dl7M_tlf.a",
      "*******",
      "" }

\* A line of the shape of an entry after the footnotes.
LateEntry == "late  0x08002000  0x20  Code  Gb  late.o"

EntryReports ==
    {Report(ModuleHeader, PlainModules, b, << LateEntry >> \o PlainTail) : b \in Bodies(EntryPool)}

\* Closing lines: the three sentences, a second code sentence, a sentence
\* whose number is a lone separator, and other text.
TailPool ==
    { "  1'234 bytes of readonly  code memory",
      "     56 bytes of readonly  data memory",
      "    789 bytes of readwrite data memory",
      "  2,048 bytes of readonly code memory",
      "      ' bytes of readonly  data memory",
      "Errors: none" }

\* n empty lines.
Padding(n) == [k \in 1..n |-> ""]

\* The closing lines followed by no padding, or by enough empty lines to push
\* all of them but the last two, all but the last, or all of them out of the
\* scanned window.
TailReports ==
    {Report(ModuleHeader, PlainModules, PlainEntries, t \o Padding(n)) :
        t \in Bodies(TailPool),
        n \in {0, SummaryWindow - 2, SummaryWindow - 1, SummaryWindow}}

\* Whole sections: two module summaries and two entry lists.
SectionPool ==
    { << ModuleBanner, ModuleHeader, ModuleSeparator,
         "  main.o         380        8       12",
         "Grand Total:     380        8       12" >>,
      << ModuleBanner, ModuleHeader, ModuleSeparator,
         "  boot.o          64",
         "Grand Total:      64" >>,
      << EntryBanner, EntryHeader, EntrySeparator,
         "main  0x08000100  0x10  Code  Gb  main.o" >>,
      << EntryBanner, EntryHeader, EntrySeparator,
         "boot  0x08000000  0x40  Code  Gb  boot.o" >>,
      << "MODULE SUMMARY and ENTRY LIST follow" >> }

\* The lines of a sequence of sections.
RECURSIVE Flatten(_)
Flatten(ss) == IF ss = << >> THEN << >> ELSE Head(ss) \o Flatten(Tail(ss))

SectionReports ==
    {<< ToolchainLine >> \o Flatten(b) \o t :
        b \in Bodies(SectionPool),
        t \in {PlainTail, << "      ' bytes of readonly  data memory" >>}}

\* Lines of every kind the module loop tells apart: a group header, a
\* subtotal, a Grand Total line, a module row, a separator, other text, a
\* line that ends the section, and two lines whose number cannot be read.
LoopModulePool ==
    { "dl7M_tlf.a: [5]",
      "Total:",
      "Grand Total:   1'234       56      789",
      "  main.o         380        8       12",
      "  ------   -------",
      "some other text",
      "*******",
      "Grand Total: it's",
      "  note.o         n/a" }

\* Lines of every kind the entry loop tells apart: a single-line entry, a bare
\* name and a continuation, a name of several words, an empty line and a
\* footnote.
LoopEntryPool ==
    { "main  0x08000100  0x10  Code  Gb  main.o",
      "a_very_long_symbol_name",
      "    0x08001234   0x000000c8   Code   Gb   main.o",
      "region of vectors",
      "",
      "[2] = dl7M_tlf.a" }

\* Reports that vary the body of one section, a report with neither section,
\* and one whose closing sentence cannot be read.
LoopReports ==
    {Report(ModuleHeader, b, PlainEntries, PlainTail) : b \in Bodies(LoopModulePool)}
    \cup {Report(ModuleHeader, PlainModules, b, PlainTail) : b \in Bodies(LoopEntryPool)}
    \cup {<< ToolchainLine >> \o PlainTail,
          Report(ModuleHeader, PlainModules, PlainEntries,
                 << "      ' bytes of readonly  data memory" >>)}

\* Lines put in the place of the separator, right after a header: a separator,
\* a module row, a group header, a Grand Total row, an entry row, a footnote,
\* a line that would end the module section, a Grand Total line whose number
\* cannot be read, a bare name and an empty line.
SkippedPool ==
    { "  ------   -------  -------  -------",
      "  skipped.o      999      999      999",
      "skipped.a: [9]",
      "Grand Total:     999      999      999",
      "skipped  0x08000000  0x999  Code  Gb  skipped.o",
      "[9] = skipped.a",
      "*******",
      "Grand Total: it's",
      "skipped",
      "" }

SkipModulePool ==
    { "  main.o         380        8       12",
      "dl7M_tlf.a: [5]",
      "Grand Total:     380        8       12" }

SkipEntryPool ==
    { "main  0x08000100  0x10  Code  Gb  main.o",
      "a_very_long_symbol_name",
      "    0x08001234   0x000000c8   Code   Gb   main.o" }

\* A report with x right after the module header and y right after the entry
\* header.
SkipReport(x, mbody, y, ebody) ==
    << ToolchainLine, ModuleBanner, ModuleHeader, x >> \o mbody
    \o << EntryBanner, EntryHeader, y >> \o ebody
    \o << FootnoteLine >> \o PlainTail

SkipReports ==
    {SkipReport(x, b, EntrySeparator, PlainEntries) :
        x \in SkippedPool, b \in Bodies(SkipModulePool)}
    \cup {SkipReport(ModuleSeparator, PlainModules, y, b) :
            y \in SkippedPool, b \in Bodies(SkipEntryPool)}
    \cup {SkipReport(x, PlainModules, y, PlainEntries) : x \in SkippedPool, y \in SkippedPool}

InitGroups == InitOn(GroupReports)

InitTotals == InitOn(TotalsReports)

InitRows == InitOn(RowReports)

InitEntries == InitOn(EntryReports)

InitTails == InitOn(TailReports)

InitSections == InitOn(SectionReports)

Init ==
    InitOn(GroupReports \cup TotalsReports \cup RowReports \cup EntryReports
           \cup TailReports \cup SectionReports)

Next ==
    \/ ExtractToolchainInfo
    \/ LocateSections
    \/ FindModuleHeader
    \/ ModuleLine
    \/ FindEntryHeader
    \/ EntryLine
    \/ ParseSummary
    \/ SortEntries

Spec == Init /\ [][Next]_vars

SpecGroups == InitGroups /\ [][Next]_vars

SpecTotals == InitTotals /\ [][Next]_vars

SpecRows == InitRows /\ [][Next]_vars

SpecEntries == InitEntries /\ [][Next]_vars

SpecTails == InitTails /\ [][Next]_vars

SpecSections == InitSections /\ [][Next]_vars

InitSkips == InitOn(SkipReports)

SpecSkips == InitSkips /\ [][Next]_vars

\* The call runs to its end: the interpreter takes the next step of the
\* function as long as there is one.
InitLoops == InitOn(LoopReports)

\* The steps before the final sort: the scans of the lines and the two loops.
ScanSteps ==
    \/ ExtractToolchainInfo
    \/ LocateSections
    \/ FindModuleHeader
    \/ ModuleLine
    \/ FindEntryHeader
    \/ EntryLine
    \/ ParseSummary

AtScanStep == pc \notin {"sort", "done", "raised"}

\* Weak fairness of the scanning steps, with the condition under which the
\* interpreter has such a step to take written as the position of the
\* function (pc) instead of ENABLED: an iteration that changed nothing would
\* be taken again and again, so it is no way for a fair run to rest.
ScanFairness == []<>(~AtScanStep) \/ []<><<ScanSteps>>_vars

SpecLoops == InitLoops /\ [][Next]_vars /\ ScanFairness /\ WF_vars(SortEntries)

(***************************************************************************)
(* A call of parse_iar_number on a text of its own.                        *)
(***************************************************************************)

\* The largest number of digit groups in a grouped number.
MaxGroups == 3

\* The largest length of the texts composed freely of single characters.
MaxTextLen == 3

DigitGroups == {"0", "7", "12", "234", "007"}

Separators == {"'", ","}

\* The numbers of n digit groups joined by separators.
RECURSIVE GroupedNumbers(_)
GroupedNumbers(n) ==
    IF n <= 1 THEN DigitGroups
    ELSE {t \o sep \o g : t \in GroupedNumbers(n - 1), sep \in Separators, g \in DigitGroups}

\* The whitespace before and after a number.
Margins == {"", " ", "\t "}

\* Every text of at most n characters of digits, separators, blank and sign.
RECURSIVE ShortTexts(_)
ShortTexts(n) ==
    IF n = 0 THEN {""}
    ELSE ShortTexts(n - 1)
         \cup {t \o c : t \in ShortTexts(n - 1), c \in {"0", "1", "9", "'", ",", " ", "-"}}

\* The grouped numbers of at most 9 digits: Python's integers are unbounded,
\* the values computed here stay below 2^31.
BoundedNumbers ==
    {t \in UNION {GroupedNumbers(n) : n \in 1..MaxGroups} :
        Len(Remove(Remove(t, "'"), ",")) < 10}

\* The texts parse_iar_number is called on.
NumberTexts ==
    {l \o t \o r : l \in Margins, r \in Margins, t \in BoundedNumbers}
    \cup ShortTexts(MaxTextLen)

\* The state before the call: s is chosen, nothing of a report is read.
InitNumbers ==
    /\ number_text \in NumberTexts
    /\ number_value = 0
    /\ pc = "number"
    /\ lines = << >>
    /\ toolchain_info = ""
    /\ modules = << >>
    /\ entries = << >>
    /\ grand_total = [ro_code |-> 0, ro_data |-> 0, rw_data |-> 0]
    /\ summary = [readonly_code |-> 0, readonly_data |-> 0, readwrite_data |-> 0]
    /\ module_summary_start = None
    /\ entry_list_start = None
    /\ header_idx = None
    /\ ro_code_col = -1
    /\ ro_data_col = -1
    /\ rw_data_col = -1
    /\ current_module_group = ""
    /\ i = 0

\* The call: it returns the value or raises ValueError.
DecodeNumber ==
    /\ pc = "number"
    /\ IF parse_iar_number(number_text).raised
       THEN pc' = "number_raised" /\ number_value' = number_value
       ELSE pc' = "number_returned" /\ number_value' = parse_iar_number(number_text).value
    /\ UNCHANGED << number_text, lines, toolchain_info, modules, entries, grand_total,
                    summary, module_summary_start, entry_list_start, header_idx,
                    ro_code_col, ro_data_col, rw_data_col, current_module_group, i >>

NextNumbers == DecodeNumber

SpecNumbers == InitNumbers /\ [][NextNumbers]_vars

(***************************************************************************)
(* Properties of the parser.                                               *)
(***************************************************************************)

\* The part of the call that has run: the parts in the order of the code.
Returned == pc = "done"

\* The 0-based indices of the lines the entry-list loop has passed.
EntryLinesPassed ==
    IF pc \in {"summary", "sort", "done"} /\ entry_list_start # None /\ header_idx >= entry_list_start
    THEN (header_idx + 2)..(i - 1)
    ELSE {}

\* C1: for every readable report parse_map_file completes and returns: no line
\* of the module summary, of the entry list or of the closing lines makes it
\* raise an error.
C1_ParseNeverRaises == pc # "raised"

\* The elements of es whose size is z, in their order in es.
OfSize(es, z) == LET HasSize(e) == e.size = z IN SelectSeq(es, HasSize)

\* C2: the step that sorts and returns leaves the entries ordered by size
\* descending (each entry at least as large as the next) and leaves the
\* entries of any one size in the order in which they were encountered.
C2_EntriesSortedStable ==
    [][pc = "sort" =>
        /\ pc' = "done"
        /\ Len(entries') = Len(entries)
        /\ \A k \in 1..(Len(entries') - 1) : entries'[k].size >= entries'[k + 1].size
        /\ \A k \in 1..Len(entries) :
              OfSize(entries', entries[k].size) = OfSize(entries, entries[k].size)]_vars

\* The 1-based number of the first line whose first word is name.
LineOfName(name) ==
    CHOOSE n \in 1..Len(lines) :
        /\ Split(lines[n]) # << >> /\ Split(lines[n])[1] = name
        /\ \A m \in 1..(n - 1) : Split(lines[m]) = << >> \/ Split(lines[m])[1] # name

\* A returned list of three entries that the sort reordered: the largest was
\* the last of the three in the report, and the two others are of one size.
C2_Witness ==
    /\ Returned
    /\ Len(entries) = 3
    /\ entries[1].size > entries[2].size
    /\ entries[2].size = entries[3].size
    /\ entries[2].name # entries[3].name
    /\ LineOfName(entries[2].name) < LineOfName(entries[3].name)
    /\ LineOfName(entries[3].name) < LineOfName(entries[1].name)

\* C3: every entry of the list has a size above 0, at every point of the call.
C3_EntrySizesPositive == \A k \in 1..Len(entries) : entries[k].size > 0

\* The loop has passed a single-line or wrapped entry of size 0, and another
\* entry was kept.
C3_Witness ==
    /\ Returned
    /\ entries # << >>
    /\ \E k \in EntryLinesPassed :
          EntryLineKind(k) \in {"single", "wrapped"} /\ EntryAt(k).size = 0

\* The 0-based index of the first line that is a section banner, None without one.
FirstModuleBanner ==
    IF \E k \in 0..(Len(lines) - 1) : IsModuleBanner(Line(k))
    THEN CHOOSE k \in 0..(Len(lines) - 1) :
            IsModuleBanner(Line(k)) /\ \A j \in 0..(k - 1) : ~IsModuleBanner(Line(j))
    ELSE None

FirstEntryBanner ==
    IF \E k \in 0..(Len(lines) - 1) : IsEntryBanner(Line(k))
    THEN CHOOSE k \in 0..(Len(lines) - 1) :
            IsEntryBanner(Line(k)) /\ \A j \in 0..(k - 1) : ~IsEntryBanner(Line(j))
    ELSE None

\* C4: the sections parsed start at the first banner of each kind: once the
\* banners are located, each start is the lowest index of a banner line.
C4_FirstBannerUsed ==
    pc \notin {"toolchain", "locate"} =>
        /\ module_summary_start = FirstModuleBanner
        /\ entry_list_start = FirstEntryBanner

\* C5: every module of the list has non-negative ro_code, ro_data and rw_data.
C5_ModuleCountsNonNegative ==
    \A k \in 1..Len(modules) :
        modules[k].ro_code >= 0 /\ modules[k].ro_data >= 0 /\ modules[k].rw_data >= 0

\* The 0-based index of the header line of the module summary, None without one.
ModuleHeaderIdx ==
    IF module_summary_start = None THEN None
    ELSE HeaderScan(module_summary_start,
                    Min(module_summary_start + HeaderWindow, Len(lines)), FALSE)

\* The 0-based indices of the lines of the module-summary body: from two lines
\* after the header up to the line that ends the section.
ModuleBody ==
    IF ModuleHeaderIdx = None THEN {}
    ELSE {k \in (ModuleHeaderIdx + 2)..(Len(lines) - 1) :
            \A j \in (ModuleHeaderIdx + 2)..k : ~IsSectionEnd(Line(j))}

\* The module loop has ended without an error.
ModulesRead == pc \in {"entry_header", "entry_loop", "summary", "sort", "done"}

\* The indices of the module rows of the body; the n-th row gives the n-th module.
ModuleRows == {k \in ModuleBody : ModuleLineKind(Line(k)) = "module"}

RowNumber(k) == Cardinality({j \in ModuleRows : j <= k})

\* An object-file token: a word that ends with the extension ".o".
IsObjectFileWord(w) == Len(w) >= 3 /\ SliceFrom(w, Len(w) - 2) = ".o"

\* A group header in the sense of rule 5: a line "label:" or "label: [N]" that
\* no earlier rule takes and whose first word is no object-file token.
IsRule5Header(line) ==
    /\ ~IsBlankOrSeparator(line) /\ ~IsGrandTotal(line) /\ ~IsSkippedTotal(line)
    /\ GroupMatch(line)
    /\ ~IsObjectFileWord(RStripChars(Split(line)[1], {":"}))

\* The group a row at index k is to get when headers tells the group headers:
\* that of the last header of the body before k, "" without one.
GroupBefore(k, headers) ==
    IF \E j \in headers : j < k
    THEN GroupOf(Line(CHOOSE j \in headers : j < k /\ \A h \in headers : h < k => h <= j))
    ELSE ""

\* C6: every module's group is the label of the most recent group-header line
\* (rule 5) before the module's row in the body, and "" when there is none.
C6_GroupIsLastHeader ==
    ModulesRead =>
        /\ Len(modules) = Cardinality(ModuleRows)
        /\ \A k \in ModuleRows :
              modules[RowNumber(k)].group =
                  GroupBefore(k, {j \in ModuleBody : IsRule5Header(Line(j))})

\* The same with the group headers the loop itself recognises (the first word
\* holds no ".o" anywhere): lines of no other kind change the group.
GroupFollowsRecognisedHeaders ==
    ModulesRead =>
        /\ Len(modules) = Cardinality(ModuleRows)
        /\ \A k \in ModuleRows :
              modules[RowNumber(k)].group =
                  GroupBefore(k, {j \in ModuleBody : ModuleLineKind(Line(j)) = "group"})

\* A bare name token: one word that starts neither with "0x" nor with "-" and
\* is no footnote.
IsBareName(line) ==
    /\ Len(Split(line)) = 1
    /\ IsNameLine(Strip(line))
    /\ ~FootnoteMatch(Strip(line))

\* The entry-list loop is at a bare name whose next line holds the other fields.
AtWrappedEntry ==
    /\ pc = "entry_loop"
    /\ i + 1 < Len(lines)
    /\ IsBareName(Line(i))
    /\ ContMatch(Strip(Line(i + 1)))

\* C7: at a bare name followed by a line "<address> <size> <Code|Data>
\* <Gb|Lc|Wk> <object>" the loop consumes both lines as one entry, named by
\* the first line with its other fields from the second (kept when its size
\* is above 0), and resumes two lines later.
C7_WrappedEntryConsumed ==
    [][AtWrappedEntry =>
        /\ pc' = "entry_loop"
        /\ i' = i + 2
        /\ LET toks == Split(Line(i + 1))
               e    == [name    |-> Strip(Line(i)),
                        address |-> Remove(toks[1], "'"),
                        size    |-> HexInt(toks[2]),
                        type    |-> toks[3],
                        scope   |-> toks[4],
                        object  |-> Strip(DropTokens(Line(i + 1), 4))]
           IN  entries' = IF e.size > 0 THEN Append(entries, e) ELSE entries]_vars

\* The wrapped entry of scenario B was read and returned.
C7_Witness ==
    /\ Returned
    /\ \E k \in EntryLinesPassed :
          /\ Strip(Line(k)) = "a_very_long_symbol_name"
          /\ k + 1 \in EntryLinesPassed
          /\ Strip(Line(k + 1)) = "0x08001234   0x000000c8   Code   Gb   main.o"
    /\ \E n \in 1..Len(entries) :
          entries[n] = [name |-> "a_very_long_symbol_name", address |-> "0x08001234",
                        size |-> 200, type |-> "Code", scope |-> "Gb", object |-> "main.o"]

\* The three fields filled left to right from nums, the rest 0.
FilledFrom(nums) ==
    [ro_code |-> IF Len(nums) >= 1 THEN nums[1] ELSE 0,
     ro_data |-> IF Len(nums) >= 2 THEN nums[2] ELSE 0,
     rw_data |-> IF Len(nums) >= 3 THEN nums[3] ELSE 0]

\* C8: a "Grand Total:" line with k numbers assigns them left to right to
\* ro_code, ro_data, rw_data and leaves the other 3-k fields at 0; numbers
\* after the third are ignored.
C8_GrandTotalFill ==
    [][(/\ pc = "module_loop"
        /\ i < Len(lines)
        /\ ModuleLineKind(Line(i)) = "grand_total"
        /\ ~AnyRaises(NumberTokens(Line(i))))
       => grand_total' = FilledFrom(DecodeAll(NumberTokens(Line(i))))]_vars

\* The 0-based indices of the final 20 lines.
FinalLines == {k \in 0..(Len(lines) - 1) : Len(lines) - k <= SummaryWindow}

\* The number of the last of the lines of ks, 0 when ks is empty.
NumberOfLast(ks) ==
    IF ks = {} THEN 0
    ELSE parse_iar_number(SentenceNumber(Line(CHOOSE k \in ks : \A j \in ks : j <= k))).value

\* C9: each field of the returned summary is the decoded number of its
\* sentence among the final 20 lines (of the last such line when there are
\* several), wherever the sentences of the other fields and the other lines
\* are, and 0 when its sentence is not among those lines.
C9_SummaryFromSentences ==
    pc \in {"sort", "done"} =>
        /\ summary.readonly_code = NumberOfLast({k \in FinalLines : IsCodeSentence(Line(k))})
        /\ summary.readonly_data = NumberOfLast({k \in FinalLines : IsDataSentence(Line(k))})
        /\ summary.readwrite_data =
              NumberOfLast({k \in FinalLines : IsReadWriteSentence(Line(k))})

\* The three sentences of scenario C were read in another order than code,
\* data, read-write.
C9_Witness ==
    /\ Returned
    /\ summary = [readonly_code |-> 1234, readonly_data |-> 56, readwrite_data |-> 789]
    /\ \E a, b \in FinalLines :
          a < b /\ IsReadWriteSentence(Line(a)) /\ IsCodeSentence(Line(b))

\* C10: a report without a module-summary banner parses with no module and a
\* grand total of zeros, one without an entry-list banner with no entry, and
\* in neither case does the parse fail.
C10_MissingSectionNotFatal ==
    /\ FirstModuleBanner = None =>
          /\ pc # "raised"
          /\ modules = << >>
          /\ grand_total = [ro_code |-> 0, ro_data |-> 0, rw_data |-> 0]
    /\ FirstEntryBanner = None =>
          /\ pc # "raised"
          /\ entries = << >>

\* C11: every module of the list has total = ro_code + ro_data + rw_data, at
\* every point of the call, whether its fields were sliced at the column
\* offsets or taken from the numbers of the row in order.
C11_TotalIsSum ==
    \A k \in 1..Len(modules) :
        modules[k].total = modules[k].ro_code + modules[k].ro_data + modules[k].rw_data

\* A module decoded by position (the header has no "rw data" label) with
\* three fields above 0 was returned, after one decoded by position too.
C11_Witness ==
    /\ Returned
    /\ ~ColumnsKnown
    /\ Len(modules) >= 2
    /\ \E k \in 2..Len(modules) :
          modules[k].ro_code > 0 /\ modules[k].ro_data > 0 /\ modules[k].rw_data > 0

\* A grouped-digit token: groups of decimal digits with one apostrophe or comma
\* between two groups.
IsGroupedDigits(t) ==
    /\ t # ""
    /\ SpanLen(t, Digits \cup {"'", ","}) = Len(t)
    /\ CharAt(t, 0) \in Digits
    /\ CharAt(t, Len(t) - 1) \in Digits
    /\ \A k \in 0..(Len(t) - 2) : CharAt(t, k) \in Digits \/ CharAt(t, k + 1) \in Digits

\* The integer the digits of t write, read left to right past every other character.
RECURSIVE ValueOfDigits(_, _)
ValueOfDigits(t, acc) ==
    IF t = "" THEN acc
    ELSE ValueOfDigits(SliceFrom(t, 1),
                       IF CharAt(t, 0) \in Digits THEN acc * 10 + DigitVal[CharAt(t, 0)]
                       ELSE acc)

\* C12: parse_iar_number returns, for a grouped-digit token with or without
\* whitespace around it, the integer the token writes once its separators
\* are removed, and returns 0 for an empty or blank text; it raises on neither.
C12_NumberDecoder ==
    pc \in {"number_returned", "number_raised"} =>
        /\ IsGroupedDigits(Strip(number_text)) =>
              pc = "number_returned" /\ number_value = ValueOfDigits(number_text, 0)
        /\ Strip(number_text) = "" =>
              pc = "number_returned" /\ number_value = 0

\* The call returned 12234007 for a number of three groups, one after an
\* apostrophe and one after a comma, with whitespace on both sides.
C12_Witness ==
    /\ pc = "number_returned"
    /\ number_text = " 12'234,007\t "
    /\ number_value = 12234007

\* The whitespace-delimited words after the object-file token of a module row.
RowWords(line) == Split(DropTokens(line, 1))

\* A row whose words after the object-file token are at most three numbers of
\* digits grouped by apostrophes.
IsPlainNumberRow(line) ==
    /\ Len(RowWords(line)) <= 3
    /\ \A n \in 1..Len(RowWords(line)) :
          IsGroupedDigits(RowWords(line)[n]) /\ ~Contains(RowWords(line)[n], ",")

\* The ways of giving each of n numbers a field of its own, in their order.
FieldChoices(n) ==
    {f \in [1..n -> 1..3] : \A a, b \in 1..n : a < b => f[a] < f[b]}

\* C13: under a header with all three labels, every number of a module row is
\* the whole value of exactly one of ro_code, ro_data, rw_data of its module,
\* in the order of the row, and the fields no number went to are 0: no number
\* is cut at the left edge of a column, split over two columns or merged with
\* its neighbour.
C13_NoNumberCorrupted ==
    ColumnsKnown =>
        \A k \in ModuleRows :
            (RowNumber(k) <= Len(modules) /\ IsPlainNumberRow(Line(k))) =>
                LET m      == modules[RowNumber(k)]
                    fields == << m.ro_code, m.ro_data, m.rw_data >>
                    words  == RowWords(Line(k))
                IN  \E f \in FieldChoices(Len(words)) :
                        /\ \A n \in 1..Len(words) : fields[f[n]] = ValueOfDigits(words[n], 0)
                        /\ \A c \in 1..3 : (\A n \in 1..Len(words) : f[n] # c) => fields[c] = 0

\* The offsets of the three labels in the header line of the module summary.
LabelOffsets ==
    << Find(Line(header_idx), "ro code"),
       Find(Line(header_idx), "ro data"),
       Find(Line(header_idx), "rw data") >>

\* The decoded text of the characters of line from offset a up to offset b, 0
\* when they are blank or the line is shorter.
SpanNumber(line, a, b) ==
    IF a >= Len(line) \/ a >= b THEN 0
    ELSE parse_iar_number(Strip(Slice(line, a, b))).value

\* The value of the n-th run of digits and apostrophes after the object-file
\* token of a row, 0 when there are fewer.
NthNumber(line, n) ==
    LET runs == FindAllRuns(DropTokens(line, 1), Digits \cup {"'"})
    IN  IF Len(runs) >= n THEN ValueOfDigits(runs[n], 0) ELSE 0

\* The module of scenario A.
ScenarioAModule ==
    [name |-> "stm32f4xx_hal", group |-> "", ro_code |-> 144, ro_data |-> 8,
     rw_data |-> 12, total |-> 164]

C15_EntryNameSingleToken ==
    \A k \in 1..Len(entries) : Len(Split(entries[k].name)) = 1

\* C16: the name of the module a row gives is the object-file token of the
\* row without its last two characters, the extension ".o"; the characters
\* before the extension are unchanged.
C16_NameIsTokenWithoutExtension ==
    [][(pc = "module_loop" /\ modules' # modules) =>
            LET token == Split(Line(i))[1]
            IN  modules'[Len(modules')].name = Slice(token, 0, Len(token) - 2)]_vars

\* The digit-group tokens of a line: the runs of digits, apostrophes and commas.
DigitGroupTokens(line) == FindAllRuns(line, Digits \cup {"'", ","})

\* The integers the tokens write.
TokenValues(tokens) == [n \in 1..Len(tokens) |-> ValueOfDigits(tokens[n], 0)]

\* C17: each digit-group token of a "Grand Total:" line, whether its groups
\* are joined by apostrophes or by commas, is decoded as one integer and fills
\* one field: the fields are assigned from the values of the tokens, one value
\* a token, in their order.
C17_GrandTotalTokens ==
    [][(/\ pc = "module_loop"
        /\ i < Len(lines)
        /\ ModuleLineKind(Line(i)) = "grand_total"
        /\ \A n \in 1..Len(DigitGroupTokens(Line(i))) :
              IsGroupedDigits(DigitGroupTokens(Line(i))[n]))
       => grand_total' =
              GrandTotalAfter(grand_total, TokenValues(DigitGroupTokens(Line(i))))]_vars

PathSeparators == {"\\", "/"}

\* The text after the last path separator of t, all of t without one.
RECURSIVE AfterLastSeparator(_)
AfterLastSeparator(t) ==
    IF t = "" \/ CharAt(t, Len(t) - 1) \in PathSeparators THEN ""
    ELSE AfterLastSeparator(Slice(t, 0, Len(t) - 1)) \o CharAt(t, Len(t) - 1)

\* The final path segment of a label: the text after the last separator, the
\* separators the label ends with left aside.
FinalSegment(label) == AfterLastSeparator(RStripChars(label, PathSeparators))

\* t without a decoration "_<10 or more digits>.dir" at its end.
WithoutHashSuffix(t) ==
    LET body   == Slice(t, 0, Len(t) - 4)
        prefix == RStripChars(body, Digits)
    IN  IF /\ Len(t) >= 4 /\ SliceFrom(t, Len(t) - 4) = ".dir"
           /\ Len(body) - Len(prefix) >= 10
           /\ prefix # "" /\ CharAt(prefix, Len(prefix) - 1) = "_"
        THEN Slice(prefix, 0, Len(prefix) - 1)
        ELSE t

\* C18: after a group header whose label holds a path separator the current
\* group is the final path segment of the label, without the decoration
\* "_<10 or more digits>.dir" at its end, and holds no path separator, also
\* when the label ends with a separator.
C18_GroupLabelNormalised ==
    [][(/\ pc = "module_loop"
        /\ i < Len(lines)
        /\ ModuleLineKind(Line(i)) = "group"
        /\ \E c \in PathSeparators : Contains(GroupLabel(Line(i)), c))
       => /\ current_module_group' = WithoutHashSuffix(FinalSegment(Strip(GroupLabel(Line(i)))))
          /\ \A c \in PathSeparators : ~Contains(current_module_group', c)]_vars

\* The index of the first footnote line "[<N>] = ..." of the entry-list body,
\* the number of lines when the body has none.
EntryListEnd ==
    LET notes == {k \in (header_idx + 2)..(Len(lines) - 1) : FootnoteMatch(Strip(Line(k)))}
    IN  IF notes = {} THEN Len(lines) ELSE CHOOSE k \in notes : \A j \in notes : k <= j

\* C19: the pass over the entry-list body ends at the first footnote line (at
\* the end of the lines without one), and no entry is added there or later.
\* Before it every line is passed without ending the pass: a single-line entry
\* and a bare name with its continuation line add their entry (when the size is
\* above 0), a blank line adds none, and neither does any other line that no
\* continuation line follows.
C19_EntryListTermination ==
    /\ [](pc = "entry_loop" => i <= EntryListEnd)
    /\ [][pc = "entry_loop" =>
            IF i = EntryListEnd
            THEN pc' = "summary" /\ entries' = entries /\ i' = i
            ELSE LET stripped == Strip(Line(i))
                     single   == EntryMatch(stripped)
                     followed == i + 1 < Len(lines) /\ ContMatch(Strip(Line(i + 1)))
                 IN  /\ pc' = "entry_loop"
                     /\ i' > i
                     /\ i' <= EntryListEnd
                     /\ (single /\ EntryOf(Split(stripped)[1], stripped, 2).size > 0) =>
                            entries' = Append(entries, EntryOf(Split(stripped)[1], stripped, 2))
                     /\ (~single /\ IsBareName(Line(i)) /\ followed
                            /\ EntryOf(stripped, Strip(Line(i + 1)), 1).size > 0) =>
                            entries' = Append(entries, EntryOf(stripped, Strip(Line(i + 1)), 1))
                     /\ (stripped = "" \/ (~single /\ ~followed)) =>
                            entries' = entries /\ i' = i + 1]_vars
    /\ [][(pc \in {"summary", "sort"}) => Len(entries') = Len(entries)]_vars

\* The pass skipped a blank line and a line of stars, read the entry after
\* them, and ended at the footnote before a later line of the shape of an entry.
C19_Witness ==
    /\ Returned
    /\ i = EntryListEnd
    /\ Len(entries) = 1
    /\ \E a, b, c \in (header_idx + 2)..(i - 1) :
          /\ a < c /\ b < c
          /\ Strip(Line(a)) = ""
          /\ StartsWith(Line(b), "***")
          /\ EntryMatch(Strip(Line(c)))
          /\ Split(Line(c))[1] = entries[1].name
    /\ \E d \in (i + 1)..(Len(lines) - 1) : EntryMatch(Strip(Line(d)))

\* C20: both passes end.  A step of the module loop or of the entry loop
\* either leaves the loop with the index unchanged (at a line that starts with
\* the border marker, at a footnote line, at the end of the lines, or with an
\* error) or stays in it at a line before the end and moves the index forward,
\* by 1, or by 2 after a wrapped entry, and never past the end of the lines;
\* no iteration of the entry loop leaves the index where it was; and every
\* call comes to its return or to an error.
C20_PassesTerminate ==
    /\ [][(pc = "module_loop") =>
            \/ pc' # "module_loop" /\ i' = i
            \/ pc' = "module_loop" /\ i < Len(lines) /\ i' = i + 1]_vars
    /\ [][(pc = "entry_loop") =>
            \/ pc' # "entry_loop" /\ i' = i
            \/ /\ pc' = "entry_loop" /\ i < Len(lines)
               /\ i' = i + (IF IsNameLine(Strip(Line(i))) /\ ~EntryMatch(Strip(Line(i)))
                               /\ i + 1 < Len(lines) /\ ContMatch(Strip(Line(i + 1)))
                            THEN 2 ELSE 1)]_vars
    /\ [](pc \in {"module_loop", "entry_loop"} => i <= Len(lines))
    /\ [](pc = "entry_loop" /\ i < Len(lines) /\ ~FootnoteMatch(Strip(Line(i)))
            => EntryAdvance(EntryLineKind(i)) >= 1)
    /\ <>(pc \in {"done", "raised"})

C20_Witness ==
    /\ Returned
    /\ modules # << >>
    /\ i = EntryListEnd
    /\ \E k \in (header_idx + 2)..(i - 2) :
          IsBareName(Line(k)) /\ ContMatch(Strip(Line(k + 1)))

\* The indices of the lines of the entry-list body that give an entry: the
\* single-line entries and the bare names followed by a continuation line,
\* from two lines after the header up to the first footnote line.
EntryBodyLines ==
    {k \in (header_idx + 2)..(EntryListEnd - 1) :
        \/ EntryMatch(Strip(Line(k)))
        \/ /\ IsBareName(Line(k))
           /\ k + 1 < Len(lines)
           /\ ContMatch(Strip(Line(k + 1)))}

\* C21: in both sections the pass over the body starts two lines after the
\* header line, and the line right after the header is never the line the
\* pass is at.  Whatever stands there (a module row, a group header, a Grand
\* Total row, one whose number cannot be read, an entry row, a bare name, a
\* footnote, a line of stars) raises no error, gives no module, no group, no
\* Grand Total and no entry, and does not end the section: the modules and the
\* entries are those of the lines from two after the header on.
C21_BodyStartsAfterSkippedLine ==
    /\ [][(pc = "module_header" /\ pc' = "module_loop") =>
            IsModuleHeader(Line(header_idx')) /\ i' = header_idx' + 2]_vars
    /\ [][(pc = "entry_header" /\ pc' = "entry_loop") =>
            IsEntryHeader(Line(header_idx')) /\ i' = header_idx' + 2]_vars
    /\ [](pc \in {"module_loop", "entry_loop"} => i >= header_idx + 2)
    /\ [](pc # "raised")
    /\ [](\A k \in 1..Len(modules) :
            /\ modules[k].name = "main"
            /\ modules[k].group \in {"", "dl7M_tlf.a"}
            /\ modules[k].ro_code = 380 /\ modules[k].ro_data = 8
            /\ modules[k].rw_data = 12)
    /\ [](current_module_group \in {"", "dl7M_tlf.a"})
    /\ [](grand_total.ro_code \in {0, 380} /\ grand_total.ro_data \in {0, 8}
            /\ grand_total.rw_data \in {0, 12})
    /\ [](\A k \in 1..Len(entries) :
            entries[k].name \in {"main", "a_very_long_symbol_name"}
            /\ entries[k].size \in {16, 200})
    /\ [](Returned => /\ Len(modules) = Cardinality(ModuleRows)
                      /\ Len(entries) = Cardinality(EntryBodyLines))

\* A module row stands right after the module header and a footnote right
\* after the entry header; the call returned the one module and the one entry
\* of the lines behind them.
C21_Witness ==
    /\ Returned
    /\ Line(ModuleHeaderIdx + 1) = "  skipped.o      999      999      999"
    /\ Line(header_idx + 1) = "[9] = skipped.a"
    /\ Len(modules) = 1 /\ modules[1].name = "main"
    /\ Len(entries) = 1 /\ entries[1].name = "main"

====
